---- MODULE Spec2Model ----
(***************************************************************************)
(* Model of the STEPUP image analysis repository:                          *)
(*   src/ISR/ISR.py              instrument signature removal pipeline     *)
(*   src/SIA/AstrometryClient.py client of the nova.astrometry.net API     *)
(*                                                                         *)
(* Pixel values are floating point numbers in the program.  They are       *)
(* modelled as exact rationals <<n, d>> (d > 0, lowest terms); rounding of *)
(* IEEE doubles is not modelled.  An image is a tuple over Pixels; pixels  *)
(* in Central stand for the region [700:1348, 450:3622] of the detector.   *)
(*                                                                         *)
(* ISR.py line 107 reads "dark = *= exptime", which is not Python; it is   *)
(* modelled as the in-place multiplication "dark *= exptime" that the      *)
(* surrounding lines and the docstring ("time-corrects each image") show.  *)
(***************************************************************************)
EXTENDS Integers, Sequences, FiniteSets, TLC

\* ------------------------------------------------------------------------
\* Bounds of the model
\* ------------------------------------------------------------------------
MaxBias == 3

MaxLights == 2

MaxRuns == 2

MaxUploads == 2

\* ------------------------------------------------------------------------
\* Program constants
\* ------------------------------------------------------------------------
FullWell == 65535

MarginNum == 97

MarginDen == 100

None == "None"

\* the value None of a variable that otherwise holds a number
Unset == -1

Pixels == {1, 2, 3}

Central == {1, 2}

\* ------------------------------------------------------------------------
\* Floating point arithmetic, as exact rationals
\* ------------------------------------------------------------------------
Abs(n) == IF n < 0 THEN -n ELSE n

RECURSIVE GCD(_, _)
GCD(a, b) == IF b = 0 THEN a ELSE GCD(b, a % b)

Q(n, d) ==
    LET s == IF d < 0 THEN -1 ELSE 1
        g == GCD(Abs(n), Abs(d))
    IN  <<(s * n) \div g, (s * d) \div g>>

QInt(n) == <<n, 1>>

QAdd(x, y) ==
    LET g == GCD(x[2], y[2])
    IN  Q(x[1] * (y[2] \div g) + y[1] * (x[2] \div g), x[2] * (y[2] \div g))

QNeg(x) == <<-x[1], x[2]>>

QSub(x, y) == QAdd(x, QNeg(y))

QMul(x, y) ==
    LET g1 == GCD(Abs(x[1]), y[2])
        g2 == GCD(Abs(y[1]), x[2])
    IN  Q((x[1] \div g1) * (y[1] \div g2), (x[2] \div g2) * (y[2] \div g1))

QDiv(x, y) == QMul(x, IF y[1] < 0 THEN <<-y[2], -y[1]>> ELSE <<y[2], y[1]>>)

QLe(x, y) == x[1] * y[2] <= y[1] * x[2]

QLt(x, y) == x[1] * y[2] < y[1] * x[2]

\* int(x): truncation toward zero
QTrunc(x) == IF x[1] >= 0 THEN x[1] \div x[2] ELSE -((-x[1]) \div x[2])

RECURSIVE QSum(_)
QSum(s) == IF s = <<>> THEN QInt(0) ELSE QAdd(Head(s), QSum(Tail(s)))

\* the values of s in ascending order (s is a sequence of rationals)
RECURSIVE QSort(_)
QSort(s) ==
    IF s = <<>> THEN <<>>
    ELSE LET m == CHOOSE i \in 1..Len(s) : \A j \in 1..Len(s) : QLe(s[i], s[j])
             rest == [k \in 1..(Len(s) - 1) |-> IF k < m THEN s[k] ELSE s[k + 1]]
         IN  <<s[m]>> \o QSort(rest)

\* np.median of a non-empty sequence of values
Median(s) ==
    LET t == QSort(s)
        n == Len(t)
    IN  IF n % 2 = 1 THEN t[(n + 1) \div 2]
        ELSE QDiv(QAdd(t[n \div 2], t[n \div 2 + 1]), QInt(2))

\* np.average of a non-empty sequence of values
Average(s) == QDiv(QSum(s), QInt(Len(s)))

\* the values of image img on the pixels of set P, as a sequence
RECURSIVE PixSeq(_, _)
PixSeq(img, P) ==
    IF P = {} THEN <<>>
    ELSE LET p == CHOOSE x \in P : \A y \in P : x <= y
         IN  <<img[p]>> \o PixSeq(img, P \ {p})

\* np.array(data, dtype=float)
ToFloat(img) == [p \in Pixels |-> QInt(img[p])]

ImgSub(a, b) == [p \in Pixels |-> QSub(a[p], b[p])]

ImgDiv(a, b) == [p \in Pixels |-> QDiv(a[p], b[p])]

ImgScale(a, q) == [p \in Pixels |-> QMul(a[p], q)]

ImgUnscale(a, q) == [p \in Pixels |-> QDiv(a[p], q)]

\* np.median(stack, 0) and np.average(stack, 0) of a non-empty stack
MedianStack(stack) ==
    [p \in Pixels |-> Median([k \in 1..Len(stack) |-> stack[k][p]])]

AverageStack(stack) ==
    [p \in Pixels |-> Average([k \in 1..Len(stack) |-> stack[k][p]])]

\* ------------------------------------------------------------------------
\* FITS files: the header cards the program reads, and the pixel data
\* ------------------------------------------------------------------------
Frame(typ, exp, fil, img) ==
    [typ |-> typ, exptime |-> exp, filter |-> fil, data |-> img]

\* Bias frames found in dirtarget: the k-th one of the night
BiasFrame(k) ==
    Frame("Bias Frame", 0, None,
          CASE k = 1 -> <<10, 10, 10>>
            [] k = 2 -> <<10, 10, 40>>
            [] k = 3 -> <<10, 10, 13>>
            [] OTHER -> <<10, 10, 11>>)

DarkA == Frame("Dark Frame", 30, None, <<15, 17, 19>>)

DarkB == Frame("Dark Frame", 60, None, <<25, 29, 33>>)

DarkZ == Frame("Dark Frame", 30, None, <<10, 10, 10>>)

DarkStacks == {<<>>, <<DarkA>>, <<DarkB>>, <<DarkA, DarkB>>, <<DarkZ>>}

FlatV1 == Frame("Flat Field", 5, "V", <<160, 260, 110>>)

FlatV2 == Frame("Flat Field", 5, "V", <<110, 310, 60>>)

FlatVu == Frame("Flat Field", 5, "V", <<30, 30, 30>>)

FlatR1 == Frame("Flat Field", 5, "R", <<110, 110, 60>>)

FlatStacks ==
    {<<>>, <<FlatVu>>, <<FlatV1, FlatV2>>, <<FlatR1>>,
     <<FlatV1, FlatR1>>, <<FlatR1, FlatV2, FlatV1>>, <<FlatV1, FlatV2, FlatVu>>}

LightFrames ==
    {Frame("Light Frame", 30, "V", <<110, 110, 110>>),
     Frame("Light Frame", 60, "V", <<1222, 2300, 900>>),
     Frame("Light Frame", 30, "R", <<820, 1510, 400>>)}

\* a file whose header has no IMAGETYP card, and one of an unknown type
Untyped == Frame(None, 30, "V", <<500, 500, 500>>)

Unknown == Frame("Tricolor Image", 30, "V", <<500, 500, 500>>)

ExtraFiles == {<<>>, <<Untyped>>, <<Unknown>>}

RECURSIVE BiasStack(_)
BiasStack(n) == IF n = 0 THEN <<>> ELSE BiasStack(n - 1) \o <<BiasFrame(n)>>

\* three bias frames whose values at the last pixel are 10, 12 and 11
ExampleBias ==
    <<Frame("Bias Frame", 0, None, <<10, 10, 10>>),
      Frame("Bias Frame", 0, None, <<10, 10, 12>>),
      Frame("Bias Frame", 0, None, <<10, 10, 11>>)>>

BiasStacks == {BiasStack(n) : n \in 0..MaxBias} \cup {ExampleBias}

SeqsUpTo(S, n) == UNION {[1..k -> S] : k \in 0..n}

MFlatName(f) == IF f = "V" THEN "V_mflat.fits" ELSE "R_mflat.fits"

\* the orders in which a set of filter names can be iterated
Orders(S) ==
    {s \in [1..Cardinality(S) -> S] : \A i, j \in 1..Cardinality(S) : s[i] = s[j] => i = j}

\* ------------------------------------------------------------------------
\* State
\* ------------------------------------------------------------------------
VARIABLES
    dirtarget,      \* the .fit files of dirtarget, in listing order
    dirdark,        \* the .fit files of dirdark, in listing order
    mcalibDir,      \* dirtarget/mcalib exists
    mcalib,         \* the files of dirtarget/mcalib: name -> file
    isrRoot,        \* dirtarget/ISR_Images exists
    isrDirs,        \* the filters f for which dirtarget/ISR_Images/f exists
    outputs,        \* the calibrated files: <<filter, n>> -> file
    pc,             \* position of ISR_main
    run,            \* number of the current call of ISR_main
    err,            \* the exception that ended the run, or None
    errAt,          \* the position at which it was raised
    exptime,        \* get_unfiltered_calibimages: exptime
    image_filters,  \* the filter names, in the iteration order of the set
    fi,             \* index of the filter loops
    mbias,          \* instrument_signature_removal: list mbias
    mdark,          \* instrument_signature_removal: list mdark
    mflat,          \* instrument_signature_removal: list mflat
    dark_exptime,   \* instrument_signature_removal: dark_exptime
    saturation,     \* instrument_signature_removal: saturation
    li,             \* entries of os.listdir(dirtarget) already visited
    written,        \* master files written by the current run
    prevEnd,        \* how the previous call of ISR_main ended, or None
    prevOutputs     \* the calibrated files as the previous call left them

isrvars ==
    <<dirtarget, dirdark, mcalibDir, mcalib, isrRoot, isrDirs, outputs, pc, run,
      err, errAt, exptime, image_filters, fi, mbias, mdark, mflat, dark_exptime,
      saturation, li, written, prevEnd, prevOutputs>>

VARIABLES
    session,        \* AstrometryClient.session
    subid,          \* AstrometryClient.subid
    jobid,          \* AstrometryClient.jobid
    acpc,           \* the method of the client that is polling, or "idle"
    lastCall,       \* the public method called last
    ret,            \* what it returned: "True", "False", "None" or "Raised"
    exc,            \* the exception it raised, or None
    newImage,       \* the job whose result new-image.fits holds, or Unset
    svc,            \* the remote service: the stage of each submission
    dl              \* what download_new_image_fits met during its last call

acvars == <<session, subid, jobid, acpc, lastCall, ret, exc, newImage, svc, dl>>

VARIABLES
    satIn,          \* inputs of the saturation estimate: bias, dark, flat levels
    satOut,         \* the saturation computed from them
    satWas,         \* the saturation before the last change of an input
    satMoved        \* the input raised last: "bias", "dark", "flat" or None

satvars == <<satIn, satOut, satWas, satMoved>>

vars == <<isrvars, acvars, satvars>>

NoFiles == [x \in {} |-> x]

ISRInit ==
    /\ \E bs \in BiasStacks, fl \in FlatStacks, ls \in SeqsUpTo(LightFrames, MaxLights),
          ex \in ExtraFiles :
          dirtarget = ex \o bs \o fl \o ls
    /\ dirdark \in DarkStacks
    /\ mcalibDir = FALSE
    /\ mcalib = NoFiles
    /\ isrRoot = FALSE
    /\ isrDirs = {}
    /\ outputs = NoFiles
    /\ pc = "bias"
    /\ run = 1
    /\ err = None
    /\ errAt = None
    /\ exptime = Unset
    /\ image_filters = <<>>
    /\ fi = 1
    /\ mbias = <<>>
    /\ mdark = <<>>
    /\ mflat = <<>>
    /\ dark_exptime = Unset
    /\ saturation = Unset
    /\ li = 0
    /\ written = {}
    /\ prevEnd = None
    /\ prevOutputs = NoFiles

\* ------------------------------------------------------------------------
\* get_unfiltered_calibimages
\* ------------------------------------------------------------------------
\* header['IMAGETYP'] can be read in every file of the listing
Typed(files) == \A k \in 1..Len(files) : files[k].typ # None

OfType(files, typ) == SelectSeq(files, LAMBDA f : f.typ = typ)

FloatData(files) == [k \in 1..Len(files) |-> ToFloat(files[k].data)]

\* lines 79-80 with the EXPTIME of the first Light Frame kept
LightExptimeFirst(files) ==
    LET ls == OfType(files, "Light Frame")
    IN  IF ls = <<>> THEN Unset ELSE ls[1].exptime

\* EXPTIME of the Light Frame the scan of dirtarget meets last
LightExptime(files) ==
    LET ls == OfType(files, "Light Frame")
    IN  IF ls = <<>> THEN Unset ELSE ls[Len(ls)].exptime

\* line 85 with the mean of the stack in place of its median
MasterBiasMean(files) == AverageStack(FloatData(OfType(files, "Bias Frame")))

MasterBias(files) == MedianStack(FloatData(OfType(files, "Bias Frame")))

\* dark -= mbias_array; dark /= dark_exptime; dark *= exptime
RescaleDark(dark, mb, dexp, e) ==
    ImgScale(ImgUnscale(ImgSub(dark, mb), QInt(dexp)), QInt(e))

MasterDark(files, mb, e) ==
    LET ds == OfType(files, "Dark Frame")
        dexp == ds[Len(ds)].exptime
    IN  MedianStack([k \in 1..Len(ds) |-> RescaleDark(ToFloat(ds[k].data), mb, dexp, e)])

Write(dir, name, file) ==
    [n \in DOMAIN dir \cup {name} |-> IF n = name THEN file ELSE dir[n]]

Raise(e) ==
    /\ pc' = "failed"
    /\ err' = e
    /\ errAt' = pc

\* lines 62-90: the scan of dirtarget and the master bias.  Of an empty stack
\* np.median and np.average give the scalar nan, and fits.PrimaryHDU raises
\* TypeError for data without a dimension: the TypeError of lines 88, 112, 185.
MakeMasterBias ==
    /\ UNCHANGED <<acvars, satvars, prevEnd, prevOutputs>>
    /\ pc = "bias"
    /\ UNCHANGED <<dirtarget, dirdark, isrRoot, isrDirs, outputs, run, image_filters,
                   fi, mbias, mdark, mflat, dark_exptime, saturation, li>>
    /\ IF mcalibDir
       THEN /\ Raise("FileExistsError")
            /\ UNCHANGED <<mcalibDir, mcalib, exptime, written>>
       ELSE /\ mcalibDir' = TRUE
            /\ IF ~Typed(dirtarget)
               THEN /\ Raise("KeyError")
                    /\ UNCHANGED <<mcalib, exptime, written>>
               ELSE IF OfType(dirtarget, "Bias Frame") = <<>>
               THEN /\ Raise("TypeError")
                    /\ UNCHANGED <<mcalib, exptime, written>>
               ELSE IF "mbias.fits" \in DOMAIN mcalib
               THEN /\ Raise("OSError")
                    /\ UNCHANGED <<mcalib, exptime, written>>
               ELSE /\ mcalib' = Write(mcalib, "mbias.fits",
                                       Frame("Bias Frame", 0, None, MasterBias(dirtarget)))
                    /\ exptime' = LightExptime(dirtarget)
                    /\ written' = written \cup {"mbias.fits"}
                    /\ pc' = "dark"
                    /\ UNCHANGED <<err, errAt>>

\* lines 92-116: the master dark
MakeMasterDark ==
    /\ UNCHANGED <<acvars, satvars, prevEnd, prevOutputs>>
    /\ pc = "dark"
    /\ UNCHANGED <<dirtarget, dirdark, mcalibDir, isrRoot, isrDirs, outputs, run,
                   exptime, image_filters, fi, mbias, mdark, mflat, dark_exptime,
                   saturation, li>>
    /\ LET ds == OfType(dirdark, "Dark Frame")
       IN  IF ~Typed(dirdark)
           THEN /\ Raise("KeyError")
                /\ UNCHANGED <<mcalib, written>>
           ELSE IF ds = <<>> \/ exptime = Unset
           THEN /\ Raise("TypeError")
                /\ UNCHANGED <<mcalib, written>>
           ELSE /\ mcalib' = Write(mcalib, "mdark.fits",
                                   Frame("Dark Frame", ds[Len(ds)].exptime, None,
                                         MasterDark(dirdark, mcalib["mbias.fits"].data, exptime)))
                /\ written' = written \cup {"mdark.fits"}
                /\ pc' = "filters"
                /\ UNCHANGED <<err, errAt>>

\* ------------------------------------------------------------------------
\* get_filtered_calibimages
\* ------------------------------------------------------------------------
\* the data of the files of mcalib whose IMAGETYP is typ (and, for a master
\* flat, whose FILTER is fil), as the loops over mcalib collect them
MastersOf(dir, typ, fil) ==
    LET names == {n \in DOMAIN dir :
                    /\ dir[n].typ = typ
                    /\ typ = "Flat Field" => dir[n].filter = fil}
    IN  IF names = {} THEN <<>> ELSE <<dir[CHOOSE n \in names : TRUE].data>>

FilterSet(files) ==
    {files[k].filter : k \in {j \in 1..Len(files) :
                                files[j].typ \in {"Flat Field", "Light Frame"}}}

FlatsOf(files, fil) ==
    SelectSeq(files, LAMBDA f : f.typ = "Flat Field" /\ f.filter = fil)

\* flat -= mbias_array[0]; flat /= np.average(flat[700:1348, 450:3622])
NormalizeFlat(flat, mb) ==
    LET s == ImgSub(flat, mb)
    IN  ImgUnscale(s, Average(PixSeq(s, Central)))

\* line 182 with the median of the normalized flats in place of their mean
MasterFlatMedian(files, fil, mb) ==
    LET fs == FlatsOf(files, fil)
    IN  MedianStack([k \in 1..Len(fs) |-> NormalizeFlat(ToFloat(fs[k].data), mb)])

MasterFlat(files, fil, mb) ==
    LET fs == FlatsOf(files, fil)
    IN  AverageStack([k \in 1..Len(fs) |-> NormalizeFlat(ToFloat(fs[k].data), mb)])

\* the loop over the filters left after its first turn
MoreFiltersNever(k, filters) == FALSE

\* "for i in image_filters", "for fil in image_filters": the loop goes on
\* after the k-th filter
MoreFilters(k, filters) == k < Len(filters)

\* lines 139-161: the master bias is read back and the filter names collected
ScanFilters ==
    /\ UNCHANGED <<acvars, satvars, prevEnd, prevOutputs>>
    /\ pc = "filters"
    /\ UNCHANGED <<dirtarget, dirdark, mcalibDir, mcalib, isrRoot, isrDirs, outputs,
                   run, exptime, mbias, mdark, mflat, dark_exptime, saturation, li,
                   written>>
    /\ IF ~Typed(dirtarget)
       THEN /\ Raise("KeyError")
            /\ UNCHANGED <<image_filters, fi>>
       ELSE /\ image_filters' \in Orders(FilterSet(dirtarget))
            /\ fi' = 1
            /\ pc' = IF FilterSet(dirtarget) = {} THEN "done" ELSE "flat"
            /\ UNCHANGED <<err, errAt>>

\* the iteration of lines 163-188 with a filter without Flat Fields skipped
\* in silence
MakeMasterFlatSkipEmpty ==
    /\ UNCHANGED <<acvars, satvars, prevEnd, prevOutputs>>
    /\ pc = "flat"
    /\ UNCHANGED <<dirtarget, dirdark, mcalibDir, isrRoot, isrDirs, outputs, run,
                   exptime, image_filters, mbias, mdark, mflat, dark_exptime,
                   saturation, li, err, errAt>>
    /\ LET i == image_filters[fi]
           mb == MastersOf(mcalib, "Bias Frame", None)
       IN  /\ IF FlatsOf(dirtarget, i) = <<>>
              THEN UNCHANGED <<mcalib, written>>
              ELSE /\ mcalib' = Write(mcalib, MFlatName(i),
                                      Frame("Flat Field", 5, i, MasterFlat(dirtarget, i, mb[1])))
                   /\ written' = written \cup {MFlatName(i)}
           /\ IF MoreFilters(fi, image_filters)
              THEN fi' = fi + 1 /\ pc' = "flat"
              ELSE fi' = 1 /\ pc' = "isr"

\* lines 163-188, one iteration: the master flat of filter image_filters[fi]
MakeMasterFlat ==
    /\ UNCHANGED <<acvars, satvars, prevEnd, prevOutputs>>
    /\ pc = "flat"
    /\ UNCHANGED <<dirtarget, dirdark, mcalibDir, isrRoot, isrDirs, outputs, run,
                   exptime, image_filters, mbias, mdark, mflat, dark_exptime,
                   saturation, li>>
    /\ LET i == image_filters[fi]
           mb == MastersOf(mcalib, "Bias Frame", None)
       IN  IF mb = <<>> /\ FlatsOf(dirtarget, i) # <<>>
           THEN /\ Raise("IndexError")
                /\ UNCHANGED <<mcalib, fi, written>>
           ELSE IF FlatsOf(dirtarget, i) = <<>>
           THEN /\ Raise("TypeError")
                /\ UNCHANGED <<mcalib, fi, written>>
           ELSE /\ mcalib' = Write(mcalib, MFlatName(i),
                                   Frame("Flat Field", 5, i, MasterFlat(dirtarget, i, mb[1])))
                /\ written' = written \cup {MFlatName(i)}
                /\ IF MoreFilters(fi, image_filters)
                   THEN fi' = fi + 1 /\ pc' = "flat"
                   ELSE fi' = 1 /\ pc' = "isr"
                /\ UNCHANGED <<err, errAt>>

\* ------------------------------------------------------------------------
\* instrument_signature_removal
\* ------------------------------------------------------------------------
\* lines 247-253 with the flat mean multiplied in
SaturationTimesFlat(mb, md, mf, e, dexp) ==
    LET s1 == QSub(QInt(FullWell), Median(PixSeq(mb, Pixels)))
        s2 == QSub(s1, Median(PixSeq(ImgUnscale(ImgScale(md, QInt(e)), QInt(dexp)), Pixels)))
        s3 == QMul(s2, Average(PixSeq(mf, Pixels)))
        s4 == QMul(s3, Q(MarginNum, MarginDen))
    IN  QTrunc(s4)

\* lines 247-253
Saturation(mb, md, mf, e, dexp) ==
    LET s1 == QSub(QInt(FullWell), Median(PixSeq(mb, Pixels)))
        s2 == QSub(s1, Median(PixSeq(ImgUnscale(ImgScale(md, QInt(e)), QInt(dexp)), Pixels)))
        s3 == QDiv(s2, Average(PixSeq(mf, Pixels)))
        s4 == QMul(s3, Q(MarginNum, MarginDen))
    IN  QTrunc(s4)

\* lines 269-273 with the division by the flat done first
CalibrateFlatFirst(image, mb, md, mf) ==
    ImgSub(ImgSub(ImgDiv(ToFloat(image), mf), mb), md)

\* lines 269-273
Calibrate(image, mb, md, mf) ==
    ImgDiv(ImgSub(ImgSub(ToFloat(image), mb), md), mf)

DarkExptimeOf(dir, old) ==
    IF "mdark.fits" \in DOMAIN dir THEN dir["mdark.fits"].exptime ELSE old

\* lines 223-257, for filter image_filters[fi]: the masters are appended to
\* the lists, the saturation is computed and the directories are made
BeginFilter ==
    /\ UNCHANGED <<acvars, satvars, prevEnd, prevOutputs>>
    /\ pc = "isr"
    /\ UNCHANGED <<dirtarget, dirdark, mcalibDir, mcalib, outputs, run, exptime,
                   image_filters, fi, written>>
    /\ LET fil == image_filters[fi]
           nb == mbias \o MastersOf(mcalib, "Bias Frame", None)
           nd == mdark \o MastersOf(mcalib, "Dark Frame", None)
           nf == mflat \o MastersOf(mcalib, "Flat Field", fil)
           de == DarkExptimeOf(mcalib, dark_exptime)
       IN  /\ mbias' = nb
           /\ mdark' = nd
           /\ mflat' = nf
           /\ dark_exptime' = de
           /\ IF nb = <<>> \/ nd = <<>> \/ nf = <<>>
              THEN /\ Raise("IndexError")
                   /\ UNCHANGED <<saturation, isrRoot, isrDirs, li>>
              ELSE /\ saturation' = Saturation(nb[1], nd[1], nf[1], exptime, de)
                   /\ IF isrRoot
                      THEN /\ Raise("FileExistsError")
                           /\ UNCHANGED <<isrRoot, isrDirs, li>>
                      ELSE /\ isrRoot' = TRUE
                           /\ isrDirs' = isrDirs \cup {fil}
                           /\ li' = 0
                           /\ pc' = "light"
                           /\ UNCHANGED <<err, errAt>>

\* the entries after position k of os.listdir(dirtarget) that are Light
\* Frames of filter fil
LightsAfter(files, fil, k) ==
    {j \in (k + 1)..Len(files) : files[j].typ = "Light Frame" /\ files[j].filter = fil}

\* lines 277-279 with the sequence index left out of the file name
OutPathNoIndex(fil, n) == <<fil, 0>>

\* lines 277-279: ISR_Images/<fil>/<target>_<fil>_<n>.fits, for the one
\* target of the run
OutPath(fil, n) == <<fil, n>>

OutputFile(light, sat, img) ==
    [typ |-> light.typ, exptime |-> light.exptime, filter |-> light.filter,
     satlevel |-> sat, data |-> img]

\* lines 259-280, up to and including the next Light Frame of the filter:
\* entry number n of the listing is calibrated and written
CalibrateLight ==
    /\ UNCHANGED <<acvars, satvars, prevEnd, prevOutputs>>
    /\ pc = "light"
    /\ LightsAfter(dirtarget, image_filters[fi], li) # {}
    /\ LET fil == image_filters[fi]
           j == CHOOSE x \in LightsAfter(dirtarget, fil, li) :
                    \A y \in LightsAfter(dirtarget, fil, li) : x <= y
           n == j - 1
       IN  /\ outputs' = Write(outputs, OutPath(fil, n),
                               OutputFile(dirtarget[j], saturation,
                                          Calibrate(dirtarget[j].data, mbias[1], mdark[1], mflat[1])))
           /\ li' = j
    /\ UNCHANGED <<dirtarget, dirdark, mcalibDir, mcalib, isrRoot, isrDirs, pc, run,
                   err, errAt, exptime, image_filters, fi, mbias, mdark, mflat,
                   dark_exptime, saturation, written>>

\* the listing is exhausted: the next filter, or the return of ISR_main
EndFilter ==
    /\ UNCHANGED <<acvars, satvars, prevEnd, prevOutputs>>
    /\ pc = "light"
    /\ LightsAfter(dirtarget, image_filters[fi], li) = {}
    /\ IF MoreFilters(fi, image_filters)
       THEN fi' = fi + 1 /\ pc' = "isr"
       ELSE fi' = fi /\ pc' = "done"
    /\ li' = Len(dirtarget)
    /\ UNCHANGED <<dirtarget, dirdark, mcalibDir, mcalib, isrRoot, isrDirs, outputs,
                   run, err, errAt, exptime, image_filters, mbias, mdark, mflat,
                   dark_exptime, saturation, written>>

\* ------------------------------------------------------------------------
\* ISR_main
\* ------------------------------------------------------------------------
Ended == pc \in {"done", "failed"}

\* ISR_main is called again on the same directories
CallAgain ==
    /\ UNCHANGED <<acvars, satvars>>
    /\ Ended
    /\ prevEnd' = pc
    /\ prevOutputs' = outputs
    /\ run < MaxRuns
    /\ run' = run + 1
    /\ pc' = "bias"
    /\ err' = None
    /\ errAt' = None
    /\ exptime' = Unset
    /\ image_filters' = <<>>
    /\ fi' = 1
    /\ mbias' = <<>>
    /\ mdark' = <<>>
    /\ mflat' = <<>>
    /\ dark_exptime' = Unset
    /\ saturation' = Unset
    /\ li' = 0
    /\ written' = {}
    /\ UNCHANGED <<dirtarget, dirdark, mcalibDir, mcalib, isrRoot, isrDirs, outputs>>

ISRNext ==
    \/ MakeMasterBias
    \/ MakeMasterDark
    \/ ScanFilters
    \/ MakeMasterFlat
    \/ BeginFilter
    \/ CalibrateLight
    \/ EndFilter
    \/ CallAgain

\* ------------------------------------------------------------------------
\* AstrometryClient
\* ------------------------------------------------------------------------
\* what a request meets: the service answers, the connection fails, the
\* status is not 200, or the body lacks the fields the caller reads
Nets == {"ok", "down", "http500", "badjson"}

NoResponse == [none |-> TRUE]

IsNone(r) == "none" \in DOMAIN r

\* __post and __get: None on ConnectionError and on a status other than 200
Request(n, body) ==
    IF n \in {"down", "http500"} THEN NoResponse
    ELSE IF n = "badjson" THEN [detail |-> "unexpected"]
    ELSE body

JobOf(s) == s + 10

SubOf(j) == j - 10

\* the bodies the service can send for submission s and for job j
SubmissionBodies(s) ==
    IF s \notin 1..Len(svc) THEN {[jobs |-> <<>>]}
    ELSE IF svc[s] = "queued" THEN {[jobs |-> <<>>], [jobs |-> <<Unset>>]}
    ELSE {[jobs |-> <<JobOf(s)>>]}

JobBody(j) ==
    IF SubOf(j) \notin 1..Len(svc) THEN [status |-> "failure"]
    ELSE [status |-> IF svc[SubOf(j)] \in {"success", "failure"}
                     THEN svc[SubOf(j)] ELSE "solving"]

\* submission_is_finished, lines 73-86: the new jobid and the result
SubmissionFinished(n, body) ==
    IF subid = Unset THEN [jobid |-> jobid, r |-> "False", e |-> None]
    ELSE LET response == Request(n, body)
         IN  IF IsNone(response) THEN [jobid |-> Unset, r |-> "False", e |-> None]
             ELSE IF "jobs" \notin DOMAIN response
             THEN [jobid |-> jobid, r |-> "Raised", e |-> "KeyError"]
             ELSE IF response.jobs # <<>> /\ response.jobs # <<Unset>>
             THEN [jobid |-> response.jobs[1], r |-> "True", e |-> None]
             ELSE [jobid |-> Unset, r |-> "False", e |-> None]

\* job_is_finished, lines 103-113
JobFinished(n, body) ==
    IF jobid = Unset THEN [r |-> "False", e |-> None]
    ELSE LET response == Request(n, body)
         IN  IF IsNone(response) THEN [r |-> "False", e |-> None]
             ELSE IF "status" \notin DOMAIN response
             THEN [r |-> "Raised", e |-> "KeyError"]
             ELSE IF response.status = "success" THEN [r |-> "True", e |-> None]
             ELSE [r |-> "False", e |-> None]

\* what wait_for_job_finished returns when its loop ends (it has no return)
WaitForJobFinishedValue == "None"

Truthy(v) == v = "True"

NoDl == [left |-> FALSE, success |-> FALSE, fetch |-> FALSE]

Returns(call, value, e) ==
    /\ acpc' = "idle"
    /\ lastCall' = call
    /\ ret' = value
    /\ exc' = e

\* upload_image, lines 37-65
UploadImage ==
    /\ acpc = "idle"
    /\ UNCHANGED <<isrvars, satvars, session, jobid, newImage, dl>>
    /\ \E readable \in BOOLEAN, n \in Nets, accepted \in BOOLEAN :
          IF session = None
          THEN /\ Returns("upload_image", "False", None)
               /\ UNCHANGED <<subid, svc>>
          ELSE IF ~readable
          THEN /\ Returns("upload_image", "Raised", "UnboundLocalError")
               /\ UNCHANGED <<subid, svc>>
          ELSE LET ok == accepted /\ Len(svc) < MaxUploads
                   response == Request(n, IF ok
                                          THEN [status |-> "success", subid |-> Len(svc) + 1]
                                          ELSE [status |-> "error"])
               IN  /\ svc' = IF n \in {"ok", "badjson"} /\ ok
                             THEN Append(svc, "queued") ELSE svc
                   /\ IF IsNone(response)
                      THEN /\ Returns("upload_image", "False", None)
                           /\ subid' = Unset
                      ELSE IF "status" \notin DOMAIN response
                      THEN /\ Returns("upload_image", "Raised", "KeyError")
                           /\ UNCHANGED subid
                      ELSE IF response.status = "success"
                      THEN /\ Returns("upload_image", "True", None)
                           /\ subid' = response.subid
                      ELSE /\ Returns("upload_image", "False", None)
                           /\ subid' = Unset

\* submission_is_finished called by the user
SubmissionIsFinished ==
    /\ acpc = "idle"
    /\ UNCHANGED <<isrvars, satvars, session, subid, newImage, svc, dl>>
    /\ \E n \in Nets, body \in SubmissionBodies(subid) :
          LET res == SubmissionFinished(n, body)
          IN  /\ jobid' = res.jobid
              /\ Returns("submission_is_finished", res.r, res.e)

\* job_is_finished called by the user
JobIsFinished ==
    /\ acpc = "idle"
    /\ UNCHANGED <<isrvars, satvars, session, subid, jobid, newImage, svc, dl>>
    /\ \E n \in Nets :
          LET res == JobFinished(n, JobBody(jobid))
          IN  Returns("job_is_finished", res.r, res.e)

\* wait_for_submission_finished, lines 93-95: the call, and one turn of the loop
WaitForSubmissionFinished ==
    /\ acpc = "idle"
    /\ acpc' = "wait_sub"
    /\ lastCall' = "wait_for_submission_finished"
    /\ UNCHANGED <<isrvars, satvars, session, subid, jobid, ret, exc, newImage, svc, dl>>

PollSubmission ==
    /\ acpc = "wait_sub"
    /\ UNCHANGED <<isrvars, satvars, session, subid, lastCall, newImage, svc, dl>>
    /\ \E n \in Nets, body \in SubmissionBodies(subid) :
          LET res == SubmissionFinished(n, body)
          IN  /\ jobid' = res.jobid
              /\ IF res.r = "Raised"
                 THEN acpc' = "idle" /\ ret' = "Raised" /\ exc' = res.e
                 ELSE IF res.r = "True" \/ subid = Unset
                 THEN acpc' = "idle" /\ ret' = "None" /\ exc' = None
                 ELSE acpc' = "sleep_sub" /\ UNCHANGED <<ret, exc>>

\* wait_for_job_finished, lines 120-122: the call, and one turn of the loop
WaitForJobFinished ==
    /\ acpc = "idle"
    /\ acpc' = "wait_job"
    /\ lastCall' = "wait_for_job_finished"
    /\ UNCHANGED <<isrvars, satvars, session, subid, jobid, ret, exc, newImage, svc, dl>>

PollJob ==
    /\ acpc = "wait_job"
    /\ UNCHANGED <<isrvars, satvars, session, subid, jobid, lastCall, newImage, svc, dl>>
    /\ \E n \in Nets :
          LET res == JobFinished(n, JobBody(jobid))
          IN  IF res.r = "Raised"
              THEN acpc' = "idle" /\ ret' = "Raised" /\ exc' = res.e
              ELSE IF res.r = "True" \/ jobid = Unset
              THEN acpc' = "idle" /\ ret' = WaitForJobFinishedValue /\ exc' = None
              ELSE acpc' = "sleep_job" /\ UNCHANGED <<ret, exc>>

\* download_new_image_fits, lines 131-135: the submission is looked up
DownloadNewImageFits ==
    /\ acpc = "idle"
    /\ lastCall' = "download_new_image_fits"
    /\ UNCHANGED <<isrvars, satvars, session, subid, newImage, svc>>
    /\ \E n \in Nets, body \in SubmissionBodies(subid) :
          LET res == SubmissionFinished(n, body)
          IN  /\ jobid' = res.jobid
              /\ dl' = [NoDl EXCEPT !.left = (res.r = "True")]
              /\ IF res.r = "Raised"
                 THEN acpc' = "idle" /\ ret' = "Raised" /\ exc' = res.e
                 ELSE IF res.r = "False"
                 THEN acpc' = "idle" /\ ret' = "False" /\ exc' = None
                 ELSE acpc' = "download" /\ UNCHANGED <<ret, exc>>

\* download_new_image_fits, lines 136-152: one turn of the loop of
\* wait_for_job_finished and, when the loop ends, the rest of the method;
\* fetch is what requests.get of the result meets, writable whether
\* new-image.fits can be written
DownloadPoll ==
    /\ acpc = "download"
    /\ UNCHANGED <<isrvars, satvars, session, subid, jobid, lastCall, svc>>
    /\ \E n \in Nets, fetch \in Nets, writable \in BOOLEAN :
          LET res == JobFinished(n, JobBody(jobid))
          IN  IF res.r = "Raised"
              THEN /\ acpc' = "idle" /\ ret' = "Raised" /\ exc' = res.e
                   /\ UNCHANGED <<newImage, dl>>
              ELSE IF ~(res.r = "True" \/ jobid = Unset)
              THEN acpc' = "sleep_download" /\ UNCHANGED <<ret, exc, newImage, dl>>
              ELSE /\ acpc' = "idle"
                   /\ dl' = [dl EXCEPT !.success = (res.r = "True"),
                                       !.fetch = (fetch \in {"ok", "badjson"} /\ writable)]
                   /\ IF ~Truthy(WaitForJobFinishedValue)
                      THEN ret' = "False" /\ exc' = None /\ UNCHANGED newImage
                      ELSE IF fetch = "down"
                      THEN ret' = "Raised" /\ exc' = "ConnectionError" /\ UNCHANGED newImage
                      ELSE IF fetch = "http500" \/ ~writable
                      THEN ret' = "False" /\ exc' = None /\ UNCHANGED newImage
                      ELSE ret' = "True" /\ exc' = None /\ newImage' = jobid

\* time.sleep(5), lines 95 and 122: the loop goes back to its condition
Sleep ==
    /\ acpc \in {"sleep_sub", "sleep_job", "sleep_download"}
    /\ acpc' = CASE acpc = "sleep_sub" -> "wait_sub"
                [] acpc = "sleep_job" -> "wait_job"
                [] OTHER -> "download"
    /\ UNCHANGED <<isrvars, satvars, session, subid, jobid, lastCall, ret, exc, newImage,
                   svc, dl>>

\* the remote service takes a submission from the queue, and ends its job
ServiceStep ==
    /\ \E s \in 1..Len(svc) :
          \/ svc[s] = "queued" /\ svc' = [svc EXCEPT ![s] = "solving"]
          \/ svc[s] = "solving" /\ \E r \in {"success", "failure"} : svc' = [svc EXCEPT ![s] = r]
    /\ UNCHANGED <<isrvars, satvars, session, subid, jobid, acpc, lastCall, ret, exc, newImage, dl>>

\* ------------------------------------------------------------------------
\* Specifications
\* ------------------------------------------------------------------------
\* no client has been constructed
ACOff ==
    /\ session = None
    /\ subid = Unset
    /\ jobid = Unset
    /\ acpc = "off"
    /\ lastCall = None
    /\ ret = "None"
    /\ exc = None
    /\ newImage = Unset
    /\ svc = <<>>
    /\ dl = NoDl

\* the client after __init__, lines 25-29: logged in, or with session None
ACInit ==
    /\ session \in {"session-key", None}
    /\ subid = Unset
    /\ jobid = Unset
    /\ acpc = "idle"
    /\ lastCall = "__init__"
    /\ ret = "None"
    /\ exc = None
    /\ newImage = Unset
    /\ svc = <<>>
    /\ dl = NoDl

\* ISR_main is not running
ISROff ==
    /\ dirtarget = <<>>
    /\ dirdark = <<>>
    /\ mcalibDir = FALSE
    /\ mcalib = NoFiles
    /\ isrRoot = FALSE
    /\ isrDirs = {}
    /\ outputs = NoFiles
    /\ pc = "off"
    /\ run = 1
    /\ err = None
    /\ errAt = None
    /\ exptime = Unset
    /\ image_filters = <<>>
    /\ fi = 1
    /\ mbias = <<>>
    /\ mdark = <<>>
    /\ mflat = <<>>
    /\ dark_exptime = Unset
    /\ saturation = Unset
    /\ li = 0
    /\ written = {}
    /\ prevEnd = None
    /\ prevOutputs = NoFiles

\* the saturation estimate is not being exercised
SatOff ==
    /\ satIn = [bias |-> 0, dark |-> 0, flat |-> QInt(1), e |-> 1, dexp |-> 1]
    /\ satOut = Unset
    /\ satWas = Unset
    /\ satMoved = None

Init == ISRInit /\ ACOff /\ SatOff

Next == ISRNext

Spec == Init /\ [][Next]_vars

ACNext ==
    \/ UploadImage
    \/ SubmissionIsFinished
    \/ JobIsFinished
    \/ WaitForSubmissionFinished
    \/ PollSubmission
    \/ WaitForJobFinished
    \/ PollJob
    \/ DownloadNewImageFits
    \/ DownloadPoll
    \/ Sleep
    \/ ServiceStep

InitAC == ISROff /\ ACInit /\ SatOff

SpecAC == InitAC /\ [][ACNext]_vars

\* the thread that called a wait method runs: its polls and its sleeps are
\* taken; the remote service is under no obligation
SpecACFair ==
    /\ InitAC
    /\ [][ACNext]_vars
    /\ WF_vars(PollSubmission)
    /\ WF_vars(PollJob)
    /\ WF_vars(DownloadPoll)
    /\ WF_vars(Sleep)

\* ------------------------------------------------------------------------
\* The saturation estimate of lines 247-253 as a function of its inputs:
\* master frames of one level each, and the two exposure times
\* ------------------------------------------------------------------------
BiasLevels == {0, 10, 1000, 40000}

DarkLevels == {0, 12, 500, 30000}

FlatLevels == {Q(1, 2), Q(9, 10), QInt(1), Q(5, 4)}

ExposurePairs == {<<30, 30>>, <<60, 30>>}

Flat(level) == [p \in Pixels |-> level]

SaturationOf(in) ==
    Saturation(Flat(QInt(in.bias)), Flat(QInt(in.dark)), Flat(in.flat), in.e, in.dexp)

InitSat ==
    /\ ISROff
    /\ ACOff
    /\ \E b \in BiasLevels, d \in DarkLevels, f \in FlatLevels, x \in ExposurePairs :
          satIn = [bias |-> b, dark |-> d, flat |-> f, e |-> x[1], dexp |-> x[2]]
    /\ satOut = SaturationOf(satIn)
    /\ satWas = satOut
    /\ satMoved = None

Recompute(in, moved) ==
    /\ satIn' = in
    /\ satWas' = satOut
    /\ satOut' = SaturationOf(in)
    /\ satMoved' = moved
    /\ UNCHANGED <<isrvars, acvars>>

RaiseBias ==
    \E b \in BiasLevels : b > satIn.bias /\ Recompute([satIn EXCEPT !.bias = b], "bias")

RaiseDark ==
    \E d \in DarkLevels : d > satIn.dark /\ Recompute([satIn EXCEPT !.dark = d], "dark")

RaiseFlat ==
    \E f \in FlatLevels : QLt(satIn.flat, f) /\ Recompute([satIn EXCEPT !.flat = f], "flat")

SatNext ==
    \/ RaiseBias
    \/ RaiseDark
    \/ RaiseFlat

SpecSat == InitSat /\ [][SatNext]_vars

\* ------------------------------------------------------------------------
\* Properties
\* ------------------------------------------------------------------------
\* the Light Frame an output was made from: entry n of the listing
LightOf(path) == dirtarget[path[2] + 1]

LightIndexes == {j \in 1..Len(dirtarget) : dirtarget[j].typ = "Light Frame"}

LightFilters == {dirtarget[j].filter : j \in LightIndexes}

NoBias == OfType(dirtarget, "Bias Frame") = <<>>

NoDark == OfType(dirdark, "Dark Frame") = <<>>

NoFlat(f) == FlatsOf(dirtarget, f) = <<>>

Masters ==
    {"mbias.fits", "mdark.fits"} \cup {MFlatName(f) : f \in FilterSet(dirtarget)}

\* every role has frames and every file has its type-tag
InputsComplete ==
    /\ Typed(dirtarget)
    /\ Typed(dirdark)
    /\ ~NoBias
    /\ ~NoDark
    /\ LightIndexes # {}
    /\ \A f \in LightFilters : ~NoFlat(f)

\* the masters of 4.2 on disk are the example's: bias 10, dark 0, flat 1
ExampleMasters(path) ==
    /\ mcalib["mbias.fits"].data = Flat(QInt(10))
    /\ mcalib["mdark.fits"].data = Flat(QInt(0))
    /\ mcalib[MFlatName(path[1])].data = Flat(QInt(1))
    /\ LightOf(path).data = <<110, 110, 110>>

\* C1: every calibrated output pixel equals ((light - MasterBias) - MasterDark)
\* / MasterFlat, computed in that order from the master files of mcalib and the
\* flat of the output's filter; with bias 10, dark 0, flat 1 and light 110 at
\* every pixel the output is exactly 100 at every pixel.
C1_CalibrationOrder ==
    \A path \in DOMAIN outputs :
        /\ \A p \in Pixels :
              outputs[path].data[p] =
                  QDiv(QSub(QSub(QInt(LightOf(path).data[p]), mcalib["mbias.fits"].data[p]),
                            mcalib["mdark.fits"].data[p]),
                       mcalib[MFlatName(path[1])].data[p])
        /\ ExampleMasters(path) => outputs[path].data = Flat(QInt(100))

C1_Witness ==
    \E path \in DOMAIN outputs :
        /\ ExampleMasters(path)
        /\ outputs[path].data = Flat(QInt(100))

\* C2: when a first run of ISR_main on complete inputs has ended, every Light
\* Frame has exactly one calibrated output, in the directory of its filter,
\* whatever the number of filter names.
C2_OneOutputPerLight ==
    (run = 1 /\ Ended /\ InputsComplete) =>
        /\ \A j \in LightIndexes : <<dirtarget[j].filter, j - 1>> \in DOMAIN outputs
        /\ Cardinality(DOMAIN outputs) = Cardinality(LightIndexes)

\* C3: a second run of ISR_main on the directory of a run that completed
\* completes too, rewrites the three kinds of master file and leaves the same
\* calibrated outputs.
C3_SecondRunRepeats ==
    (run = 2 /\ prevEnd = "done" /\ Ended) =>
        /\ pc = "done"
        /\ Masters \subseteq written
        /\ outputs = prevOutputs

\* C4: the dark subtracted from a light frame is the dark rate (the median of
\* the bias-subtracted darks per second) times the EXPTIME of that frame.
C4_DarkAtOwnExposure ==
    \A path \in DOMAIN outputs :
        LET mb == mcalib["mbias.fits"].data
            rate == MasterDark(dirdark, mb, 1)
        IN  outputs[path].data =
                Calibrate(LightOf(path).data, mb,
                          ImgScale(rate, QInt(LightOf(path).exptime)),
                          mcalib[MFlatName(path[1])].data)

\* C5: with no Bias frame, no Dark frame or no Flat Field of a filter of the
\* light frames, the run never gets past the stage that builds that master: it
\* fails there once the stages before it have succeeded, the master file of
\* the role is not written and no light frame is calibrated.
C5_EmptyStackIsFatal ==
    /\ NoBias =>
          /\ "mbias.fits" \notin DOMAIN mcalib
          /\ DOMAIN outputs = {}
          /\ pc \in {"bias", "failed"}
          /\ pc = "failed" => errAt = "bias"
    /\ NoDark =>
          /\ "mdark.fits" \notin DOMAIN mcalib
          /\ DOMAIN outputs = {}
          /\ pc \in {"bias", "dark", "failed"}
          /\ (pc = "failed" /\ "mbias.fits" \in written) => errAt = "dark"
    /\ \A f \in LightFilters : NoFlat(f) =>
          /\ MFlatName(f) \notin DOMAIN mcalib
          /\ DOMAIN outputs = {}
          /\ pc \in {"bias", "dark", "filters", "flat", "failed"}
          /\ (pc = "failed" /\ {"mbias.fits", "mdark.fits"} \subseteq written) =>
                 errAt = "flat"

C5_Witness ==
    /\ pc = "failed"
    /\ errAt = "flat"
    /\ err = "TypeError"
    /\ {"mbias.fits", "mdark.fits"} \subseteq written
    /\ \E f \in LightFilters : NoFlat(f)

\* C6: no run is ended by a file whose IMAGETYP is missing or is none of the
\* four types: the file is passed over and the run goes on.
C6_BadTypeTagSkipped ==
    pc = "failed" => err # "KeyError"

\* C7: the SATLEVEL of every output equals trunc(0.97 * (65535 -
\* median(MasterBias) - median(MasterDark * lightExposure / darkExposure)) /
\* mean(MasterFlat)), MasterDark being the dark level at the exposure time
\* darkExposure that mdark.fits records.
C7_SatlevelFormula ==
    \A path \in DOMAIN outputs :
        LET mb == mcalib["mbias.fits"].data
            dexp == mcalib["mdark.fits"].exptime
            atRef == MasterDark(dirdark, mb, dexp)
            scaled == ImgUnscale(ImgScale(atRef, QInt(LightExptime(dirtarget))), QInt(dexp))
            linear == QDiv(QSub(QSub(QInt(FullWell), Median(PixSeq(mb, Pixels))),
                                Median(PixSeq(scaled, Pixels))),
                           Average(PixSeq(mcalib[MFlatName(path[1])].data, Pixels)))
        IN  outputs[path].satlevel = QTrunc(QMul(linear, Q(MarginNum, MarginDen)))

\* the bias and dark levels leave something of the full well
BelowFullWell(in) == in.bias + (in.dark * in.e) \div in.dexp <= FullWell

\* C8 (as amended): the saturation level does not grow when the bias level,
\* the dark level or (the levels being below the full well) the flat mean is
\* raised with the other inputs held fixed.
C8_SaturationMonotone ==
    /\ satMoved \in {"bias", "dark"} => satOut <= satWas
    /\ (satMoved = "flat" /\ BelowFullWell(satIn)) => satOut <= satWas

C8_Witness ==
    /\ satMoved = "flat"
    /\ BelowFullWell(satIn)
    /\ satOut < satWas

\* C8 (as claimed): the saturation level is decreasing in the bias level and
\* in the dark level and increasing in the flat mean.
C8_IncreasingInFlat ==
    /\ satMoved \in {"bias", "dark"} => satOut <= satWas
    /\ satMoved = "flat" => satOut >= satWas

\* C9: while light frames are being calibrated, and whenever a calibrated
\* output exists, the master bias, the master dark and the master flat of
\* every filter have been written (by the current run, while it calibrates).
C9_MastersBeforeLights ==
    /\ pc \in {"isr", "light"} => Masters \subseteq written
    /\ DOMAIN outputs # {} => Masters \subseteq DOMAIN mcalib

C9_Witness ==
    /\ pc = "light"
    /\ DOMAIN outputs # {}
    /\ Cardinality(FilterSet(dirtarget)) = 2
    /\ Masters \subseteq written

\* C10: download_new_image_fits returns True, with new-image.fits written,
\* whenever it found the submission out of the queue and the job a success and
\* the result can be fetched and written.
C10_DownloadReturnsTrue ==
    (lastCall = "download_new_image_fits" /\ acpc = "idle" /\ dl.left /\ dl.success
        /\ dl.fetch) =>
        (ret = "True" /\ newImage = jobid)

\* C11: upload_image returns True with subid set to the submission id the
\* service returned, or it returns False with subid None; it ends in no other
\* way, whatever the session, the file and the service.
C11_UploadResult ==
    (lastCall = "upload_image" /\ acpc = "idle") =>
        \/ ret = "True" /\ subid \in 1..Len(svc)
        \/ ret = "False" /\ subid = Unset

\* C12: no operation of the client is ended by an exception that a failure
\* of the remote service caused (an unreachable network, a status other than
\* 200, a body without the expected fields): it returns False or None.
C12_RemoteFailureIsResult ==
    ret = "Raised" => exc \notin {"KeyError", "ConnectionError"}

\* C13: a call of wait_for_submission_finished or of wait_for_job_finished
\* returns, whatever the remote service does.
C13_PollingEnds ==
    (acpc \in {"wait_sub", "sleep_sub", "wait_job", "sleep_job"}) ~> (acpc = "idle")

\* the r-th smallest of the integers of sequence vals
KthSmallest(vals, r) ==
    CHOOSE x \in {vals[k] : k \in 1..Len(vals)} :
        /\ Cardinality({k \in 1..Len(vals) : vals[k] < x}) < r
        /\ Cardinality({k \in 1..Len(vals) : vals[k] <= x}) >= r

\* the median of a non-empty sequence of integers: the middle value, or the
\* mean of the two middle values
MedianOfInts(vals) ==
    LET n == Len(vals)
    IN  IF n % 2 = 1 THEN <<KthSmallest(vals, (n + 1) \div 2), 1>>
        ELSE Q(KthSmallest(vals, n \div 2) + KthSmallest(vals, n \div 2 + 1), 2)

\* the values at pixel p of the Bias Frames of dirtarget
BiasValues(p) ==
    LET bs == OfType(dirtarget, "Bias Frame")
    IN  [k \in 1..Len(bs) |-> bs[k].data[p]]

\* C14: the master bias in mcalib is, at every pixel, the median of the
\* values of the Bias Frames at that pixel; bias values 10, 12, 11 at a pixel
\* give 11 there.
C14_MasterBiasIsMedian ==
    "mbias.fits" \in DOMAIN mcalib =>
        \A p \in Pixels :
            /\ BiasValues(p) # <<>>
            /\ mcalib["mbias.fits"].data[p] = MedianOfInts(BiasValues(p))
            /\ BiasValues(p) = <<10, 12, 11>> => mcalib["mbias.fits"].data[p] = <<11, 1>>

C14_Witness ==
    /\ "mbias.fits" \in DOMAIN mcalib
    /\ \E p \in Pixels :
          /\ BiasValues(p) = <<10, 12, 11>>
          /\ mcalib["mbias.fits"].data[p] = <<11, 1>>

\* C15: the master dark in mcalib is, at every pixel, the median over the
\* Dark Frames of (dark - MasterBias) / (EXPTIME of that Dark Frame) * (light
\* exposure time), also when the Dark Frames differ in EXPTIME.
C15_DarkByOwnExposure ==
    "mdark.fits" \in DOMAIN mcalib =>
        LET ds == OfType(dirdark, "Dark Frame")
            mb == mcalib["mbias.fits"].data
            e == QInt(LightExptime(dirtarget))
            own(k) == ImgScale(ImgUnscale(ImgSub(ToFloat(ds[k].data), mb),
                                          QInt(ds[k].exptime)), e)
        IN  mcalib["mdark.fits"].data = MedianStack([k \in 1..Len(ds) |-> own(k)])

\* the mean over the pixels of P of image img
MeanOver(img, P) == QDiv(QSum(PixSeq(img, P)), QInt(Cardinality(P)))

\* C16: while get_filtered_calibimages makes the master flats and when it
\* has made the last one: for every filter whose master flat is written, every
\* Flat Field of the filter, with the master bias subtracted and divided by
\* its mean over the central region, has central mean 1, and the master flat
\* is the per-pixel mean of those normalized flats.
C16_FlatNormalizedThenMean ==
    \A f \in FilterSet(dirtarget) : (pc \in {"flat", "isr"} /\ MFlatName(f) \in written) =>
        LET fs == FlatsOf(dirtarget, f)
            mb == mcalib["mbias.fits"].data
            norm == [k \in 1..Len(fs) |->
                       LET sub == [p \in Pixels |-> QSub(QInt(fs[k].data[p]), mb[p])]
                           mean == MeanOver(sub, Central)
                       IN  [p \in Pixels |-> QDiv(sub[p], mean)]]
        IN  /\ fs # <<>>
            /\ \A k \in 1..Len(fs) : MeanOver(norm[k], Central) = <<1, 1>>
            /\ \A p \in Pixels :
                  mcalib[MFlatName(f)].data[p] =
                      QDiv(QSum([k \in 1..Len(fs) |-> norm[k][p]]), QInt(Len(fs)))

\* a master flat made of three flats whose mean and median differ
C16_Witness ==
    /\ pc = "isr"
    /\ "V_mflat.fits" \in written
    /\ Len(FlatsOf(dirtarget, "V")) = 3
    /\ mcalib["V_mflat.fits"].data # MasterFlatMedian(dirtarget, "V", mcalib["mbias.fits"].data)

FirstLight == CHOOSE j \in LightIndexes : \A k \in LightIndexes : j <= k

LastLight == CHOOSE j \in LightIndexes : \A k \in LightIndexes : j >= k

\* when get_unfiltered_calibimages returns, the master dark it has written
\* is the dark rate times exposure e
DarkScaledTo(e) ==
    pc = "filters" =>
        mcalib["mdark.fits"].data =
            ImgScale(MasterDark(dirdark, mcalib["mbias.fits"].data, 1), QInt(e))

\* C17 (as amended): the exposure time that get_unfiltered_calibimages
\* returns, and to which it rescales the darks, is the EXPTIME of the last
\* Light Frame met in the scan of the target directory.
C17_ExptimeOfLastLight ==
    (exptime # Unset) =>
        /\ LightIndexes # {}
        /\ exptime = dirtarget[LastLight].exptime
        /\ DarkScaledTo(dirtarget[LastLight].exptime)

C17_Witness ==
    /\ "mdark.fits" \in written
    /\ LightIndexes # {}
    /\ dirtarget[FirstLight].exptime # dirtarget[LastLight].exptime
    /\ exptime = dirtarget[LastLight].exptime

\* C17 (as claimed): that exposure time is the EXPTIME of the first Light
\* Frame met in the scan.
C17_ExptimeOfFirstLight ==
    (exptime # Unset) =>
        /\ LightIndexes # {}
        /\ exptime = dirtarget[FirstLight].exptime
        /\ DarkScaledTo(dirtarget[FirstLight].exptime)

\* the Light Frames the current run has calibrated: those of the filters
\* already gone through, and those of the current filter up to entry li
Calibrated ==
    {j \in LightIndexes :
        \E i \in 1..fi : /\ i <= Len(image_filters)
                         /\ dirtarget[j].filter = image_filters[i]
                         /\ (i < fi \/ j <= li)}

\* C18: two distinct Light Frames have distinct output paths, and during a
\* first run there are as many calibrated files as Light Frames calibrated:
\* none was written over another.
C18_DistinctOutputPaths ==
    /\ \A j1, j2 \in LightIndexes :
          j1 # j2 => OutPath(dirtarget[j1].filter, j1 - 1) # OutPath(dirtarget[j2].filter, j2 - 1)
    /\ (run = 1 /\ pc = "light") =>
          /\ Cardinality(DOMAIN outputs) = Cardinality(Calibrated)
          /\ \A j \in Calibrated : OutPath(dirtarget[j].filter, j - 1) \in DOMAIN outputs

C18_Witness ==
    /\ run = 1
    /\ pc = "light"
    /\ Cardinality(Calibrated) = 2
    /\ Cardinality(DOMAIN outputs) = 2

\* the iteration for filter image_filters[fi] has loaded its masters and
\* computed the saturation level
Loaded == pc = "light" \/ (pc = "failed" /\ errAt = "isr" /\ err = "FileExistsError")

\* C19: in every iteration of the loop over the filters the master arrays in
\* use are those of mcalib, the flat being the master flat of the filter of
\* the iteration, and the saturation level is computed from them.
C19_MastersOfIteration ==
    Loaded =>
        LET fil == image_filters[fi]
            mb == mcalib["mbias.fits"].data
            md == mcalib["mdark.fits"].data
            mf == mcalib[MFlatName(fil)].data
        IN  /\ mbias[1] = mb
            /\ mdark[1] = md
            /\ mflat[1] = mf
            /\ saturation = Saturation(mb, md, mf, exptime, dark_exptime)

\* the dark image that was subtracted to make the output at path: what is
\* missing between the bias-subtracted light and the output times the flat
SubtractedDark(path) ==
    [p \in Pixels |->
        QSub(QSub(QInt(LightOf(path).data[p]), mcalib["mbias.fits"].data[p]),
             QMul(outputs[path].data[p], mcalib[MFlatName(path[1])].data[p]))]

\* C20: the SATLEVEL of every output is the saturation estimate made with
\* the dark image that was subtracted from that output's light frame.
C20_SameDarkInSatlevel ==
    \A path \in DOMAIN outputs :
        LET mb == mcalib["mbias.fits"].data
            s1 == QSub(QInt(FullWell), Median(PixSeq(mb, Pixels)))
            s2 == QSub(s1, Median(PixSeq(SubtractedDark(path), Pixels)))
            s3 == QDiv(s2, Average(PixSeq(mcalib[MFlatName(path[1])].data, Pixels)))
        IN  outputs[path].satlevel = QTrunc(QMul(s3, Q(MarginNum, MarginDen)))

\* C21: whenever jobid is not None, subid is not None and jobid is the job of
\* the submission subid: no upload, failed or successful, leaves the job id
\* of an earlier submission in place.
C21_JobOfCurrentSubmission ==
    jobid # Unset => (subid # Unset /\ SubOf(jobid) = subid)

====
